---- MODULE Spec2Model ----
(***************************************************************************)
(* Model of the market-analysis page (src/app/page.tsx): the tick window,  *)
(* the AnalysisState record held in stateRef, the three pipeline stages    *)
(* detectStructure, detectRegime and analyzeMarket, and the setInterval    *)
(* driver of the analysis cycle with its start/stop button.                *)
(*                                                                         *)
(* Numbers.  Prices, volumes and times are integers.  The code divides in  *)
(* four places (the ATR mean, the volume mean, the price mean and the      *)
(* cooldown in seconds); the model keeps the undivided sums and compares   *)
(* by cross-multiplication, which is exact where the code's floating point *)
(* is exact:                                                               *)
(*   calculateATR returns  period * ATR  (the sum of the true ranges),     *)
(*   state.atr holds       ATR_PERIOD * atr.                               *)
(* A tick carries the fields the pipeline reads (price, volume, high,      *)
(* low); timestamp, bid and ask are only displayed and are left out, as    *)
(* are an alert's invalidationLevel, asset and riskNote texts.             *)
(***************************************************************************)
EXTENDS Integers, Sequences, FiniteSets, TLC

\* ------------------------------------------------------------ constants

WINDOW_CAP == 100

STRUCTURE_LEN == 20

ALERT_MIN_LEN == 30

ATR_PERIOD == 14

RECENT_ATR_PERIOD == 5

SWINGS_KEPT == 3

ALERTS_KEPT == 20

COOLDOWN_MS == 30000

INTERVAL_MS == 5000

\* ------------------------------------------------------------- helpers

Abs(x) == IF x < 0 THEN -x ELSE x

Max2(a, b) == IF a >= b THEN a ELSE b

\* s.slice(-n)
LastN(s, n) == IF Len(s) <= n THEN s ELSE SubSeq(s, Len(s) - n + 1, Len(s))

\* Mutant of FirstN: slice(0, n) keeps everything.
FirstN_KeepsAll(s, n) == s

\* s.slice(0, n)
FirstN(s, n) == IF Len(s) <= n THEN s ELSE SubSeq(s, 1, n)

RECURSIVE SumSeq(_)
SumSeq(s) == IF s = <<>> THEN 0 ELSE Head(s) + SumSeq(Tail(s))

SeqMax(s) == CHOOSE x \in {s[i] : i \in 1..Len(s)} : \A j \in 1..Len(s) : s[j] <= x

SeqMin(s) == CHOOSE x \in {s[i] : i \in 1..Len(s)} : \A j \in 1..Len(s) : s[j] >= x

Prices(data) == [i \in 1..Len(data) |-> data[i].price]

Volumes(data) == [i \in 1..Len(data) |-> data[i].volume]

\* --------------------------------------------------------- calculateATR

\* True range of the i-th tick (i = 0 .. period-1) of data.slice(-period).
TrueRange(data, period, i) ==
    LET d == data[Len(data) - period + 1 + i]
    IN  IF i = 0 THEN d.high - d.low
        ELSE LET prevClose == data[Len(data) - period + i].price
             IN  Max2(d.high - d.low,
                      Max2(Abs(d.high - prevClose), Abs(d.low - prevClose)))

\* period * (the code's result): the sum of the true ranges, 0 when short.
calculateATR(data, period) ==
    IF Len(data) < period THEN 0
    ELSE LET tr[i \in 0..(period - 1)] ==
                 TrueRange(data, period, i) + (IF i = 0 THEN 0 ELSE tr[i - 1])
         IN  tr[period - 1]

\* ------------------------------------------------------ detectStructure

\* Mutant of IsSwingHigh: only the two earlier prices are compared.
IsSwingHigh_LeftOnly(prices, i) ==
    /\ prices[i] > prices[i - 1] /\ prices[i] > prices[i - 2]

IsSwingHigh(prices, i) ==
    /\ prices[i] > prices[i - 1] /\ prices[i] > prices[i - 2]
    /\ prices[i] > prices[i + 1] /\ prices[i] > prices[i + 2]

IsSwingLow(prices, i) ==
    /\ prices[i] < prices[i - 1] /\ prices[i] < prices[i - 2]
    /\ prices[i] < prices[i + 1] /\ prices[i] < prices[i + 2]

\* The loop of lines 105-114 (1-based positions 3 .. Len-2), in order.
SwingHighs(prices) ==
    LET acc[i \in 2..(Len(prices) - 2)] ==
            IF i = 2 THEN <<>>
            ELSE IF IsSwingHigh(prices, i) THEN Append(acc[i - 1], prices[i])
                 ELSE acc[i - 1]
    IN  acc[Len(prices) - 2]

SwingLows(prices) ==
    LET acc[i \in 2..(Len(prices) - 2)] ==
            IF i = 2 THEN <<>>
            ELSE IF IsSwingLow(prices, i) THEN Append(acc[i - 1], prices[i])
                 ELSE acc[i - 1]
    IN  acc[Len(prices) - 2]

\* Mutant of Classify: a lower high sets the structure and leaves the bias.
Classify_LHKeepsBias(highs, lows, st) ==
    LET nh == Len(highs)
        nl == Len(lows)
    IN  IF nh >= 2 /\ highs[nh] > highs[nh - 1] THEN <<"HH", "bull">>
        ELSE IF nl >= 2 /\ lows[nl] < lows[nl - 1] THEN <<"LL", "bear">>
        ELSE IF nh >= 2 /\ highs[nh] < highs[nh - 1] THEN <<"LH", st.bias>>
        ELSE IF nl >= 2 /\ lows[nl] > lows[nl - 1] THEN <<"HL", "bull">>
        ELSE <<st.lastStructure, st.bias>>

\* Mutant of Classify: the lows are looked at before the highs.
Classify_LowsFirst(highs, lows, st) ==
    LET nh == Len(highs)
        nl == Len(lows)
    IN  IF nl >= 2 /\ lows[nl] < lows[nl - 1] THEN <<"LL", "bear">>
        ELSE IF nh >= 2 /\ highs[nh] > highs[nh - 1] THEN <<"HH", "bull">>
        ELSE IF nh >= 2 /\ highs[nh] < highs[nh - 1] THEN <<"LH", "bear">>
        ELSE IF nl >= 2 /\ lows[nl] > lows[nl - 1] THEN <<"HL", "bull">>
        ELSE <<st.lastStructure, st.bias>>

\* The if / else-if chain of lines 120-132: <<lastStructure, bias>>.
Classify(highs, lows, st) ==
    LET nh == Len(highs)
        nl == Len(lows)
    IN  IF nh >= 2 /\ highs[nh] > highs[nh - 1] THEN <<"HH", "bull">>
        ELSE IF nl >= 2 /\ lows[nl] < lows[nl - 1] THEN <<"LL", "bear">>
        ELSE IF nh >= 2 /\ highs[nh] < highs[nh - 1] THEN <<"LH", "bear">>
        ELSE IF nl >= 2 /\ lows[nl] > lows[nl - 1] THEN <<"HL", "bull">>
        ELSE <<st.lastStructure, st.bias>>

KeyLevels(recentHighs, recentLows, st) ==
    [support    |-> IF Len(recentLows) > 0 THEN SeqMin(recentLows)
                    ELSE st.keyLevels.support,
     resistance |-> IF Len(recentHighs) > 0 THEN SeqMax(recentHighs)
                    ELSE st.keyLevels.resistance]

\* Mutant of StructureOf: the swings found are added to those kept before.
StructureOf_Accumulates(data, st) ==
    LET prices == Prices(LastN(data, STRUCTURE_LEN))
        highs  == SwingHighs(prices)
        lows   == SwingLows(prices)
        rh     == LastN(st.recentHighs \o highs, SWINGS_KEPT)
        rl     == LastN(st.recentLows \o lows, SWINGS_KEPT)
        cls    == Classify(highs, lows, st)
    IN  [st EXCEPT !.recentHighs   = rh,
                   !.recentLows    = rl,
                   !.lastStructure = cls[1],
                   !.bias          = cls[2],
                   !.keyLevels     = KeyLevels(rh, rl, st)]

\* Lines 98-140: the stage past its length gate.
StructureOf(data, st) ==
    LET prices == Prices(LastN(data, STRUCTURE_LEN))
        highs  == SwingHighs(prices)
        lows   == SwingLows(prices)
        rh     == LastN(highs, SWINGS_KEPT)
        rl     == LastN(lows, SWINGS_KEPT)
        cls    == Classify(highs, lows, st)
    IN  [st EXCEPT !.recentHighs   = rh,
                   !.recentLows    = rl,
                   !.lastStructure = cls[1],
                   !.bias          = cls[2],
                   !.keyLevels     = KeyLevels(rh, rl, st)]

\* Mutant of detectStructure: it runs as soon as one swing position exists.
detectStructure_MinFive(data, st) ==
    IF Len(data) < 5 THEN st ELSE StructureOf(data, st)

detectStructure(data, st) ==
    IF Len(data) < STRUCTURE_LEN THEN st ELSE StructureOf(data, st)

\* --------------------------------------------------------- detectRegime

\* volatilityRatio > 0.015, with avgPrice = sum / n
HighVolatility(prices) ==
    (SeqMax(prices) - SeqMin(prices)) * Len(prices) * 1000 > 15 * SumSeq(prices)

\* trendStrength > avgPrice * 0.01
Trending(st, prices) ==
    LET rh == st.recentHighs
        rl == st.recentLows
        trendStrength == Abs((rh[Len(rh)] - rh[1]) + (rl[Len(rl)] - rl[1]))
    IN  trendStrength * Len(prices) * 100 > SumSeq(prices)

\* Mutant of detectRegime: the swings are looked at before the price range.
detectRegime_SwingsFirst(data, st) ==
    IF Len(data) < STRUCTURE_LEN THEN st
    ELSE LET prices == Prices(LastN(data, STRUCTURE_LEN))
             st1    == [st EXCEPT !.atr = calculateATR(data, ATR_PERIOD)]
         IN  IF Len(st.recentHighs) >= 2 /\ Len(st.recentLows) >= 2
             THEN [st1 EXCEPT !.regime =
                      IF Trending(st, prices) THEN "trend" ELSE "range"]
             ELSE IF HighVolatility(prices)
                  THEN [st1 EXCEPT !.regime = "high-volatility"]
                  ELSE st1

detectRegime(data, st) ==
    IF Len(data) < STRUCTURE_LEN THEN st
    ELSE LET prices == Prices(LastN(data, STRUCTURE_LEN))
             st1    == [st EXCEPT !.atr = calculateATR(data, ATR_PERIOD)]
         IN  IF HighVolatility(prices)
             THEN [st1 EXCEPT !.regime = "high-volatility"]
             ELSE IF Len(st.recentHighs) >= 2 /\ Len(st.recentLows) >= 2
                  THEN [st1 EXCEPT !.regime =
                           IF Trending(st, prices) THEN "trend" ELSE "range"]
                  ELSE st1

\* -------------------------------------------------------- analyzeMarket

BREAKOUT == "Breakout above resistance with volume confirmation"

BREAKDOWN == "Breakdown below support with volume confirmation"

VOLATILITY == "Volatility expansion after compression"

SWEEP == "Liquidity sweep below previous low with reclaim"

RuleOrder == <<BREAKOUT, BREAKDOWN, VOLATILITY, SWEEP>>

\* currentData.volume > volumeAvg * 1.5, volumeAvg the mean of data.slice(-20)
VolumeConfirmed(data) ==
    LET vols == Volumes(LastN(data, STRUCTURE_LEN))
    IN  data[Len(data)].volume * Len(vols) * 2 > 3 * SumSeq(vols)

BreakoutCond(data, st) ==
    /\ st.keyLevels.resistance > 0
    /\ data[Len(data)].price > st.keyLevels.resistance
    /\ VolumeConfirmed(data)

BreakdownCond(data, st) ==
    /\ st.keyLevels.support > 0
    /\ data[Len(data)].price < st.keyLevels.support
    /\ VolumeConfirmed(data)

\* recentATR > state.atr * 1.8: recentATR = sum5 / 5, state.atr = sum14 / 14
VolatilityCond(data, st) ==
    LET recentATR == calculateATR(LastN(data, RECENT_ATR_PERIOD), RECENT_ATR_PERIOD)
    IN  /\ st.atr > 0
        /\ recentATR * ATR_PERIOD * 10 > st.atr * 18 * RECENT_ATR_PERIOD

SweepCond(data, st) ==
    /\ Len(st.recentLows) >= 2
    /\ LET prevLow == st.recentLows[Len(st.recentLows) - 1]
       IN  /\ data[Len(data)].low < prevLow
           /\ data[Len(data)].price > prevLow

\* Mutant of MkAlert: the id is the emission time within the cooldown span.
MkAlert_IdWraps(now, event, bias, triggerLevel, probability) ==
    [id |-> now % COOLDOWN_MS, timestamp |-> now, event |-> event,
     bias |-> bias, triggerLevel |-> triggerLevel,
     probability |-> probability]

MkAlert(now, event, bias, triggerLevel, probability) ==
    [id |-> now, timestamp |-> now, event |-> event, bias |-> bias,
     triggerLevel |-> triggerLevel, probability |-> probability]

\* analyzeMarket's result: the alert as a sequence of length 0 (null) or 1,
\* and the state it leaves.
NoAlert(st) == [alert |-> <<>>, state |-> st]

\* Mutant of Emit: an emission also turns the bias to that of the alert.
Emit_SetsBias(a, st, now) ==
    [alert |-> <<a>>,
     state |-> [st EXCEPT !.lastAlertTime = now, !.bias = a.bias]]

Emit(a, st, now) == [alert |-> <<a>>, state |-> [st EXCEPT !.lastAlertTime = now]]

\* Mutant of Rules: the Breakdown rule is tried before the Breakout rule.
Rules_BreakdownFirst(data, st, now) ==
    LET currentData == data[Len(data)]
    IN  IF BreakdownCond(data, st)
        THEN Emit(MkAlert(now, BREAKDOWN, "bear", st.keyLevels.support, 65), st, now)
        ELSE IF BreakoutCond(data, st)
        THEN Emit(MkAlert(now, BREAKOUT, "bull", st.keyLevels.resistance, 68), st, now)
        ELSE IF VolatilityCond(data, st)
        THEN Emit(MkAlert(now, VOLATILITY, st.bias, currentData.price, 58), st, now)
        ELSE IF SweepCond(data, st)
        THEN Emit(MkAlert(now, SWEEP, "bull",
                          st.recentLows[Len(st.recentLows) - 1], 62), st, now)
        ELSE NoAlert(st)

\* The four rules, each returning from analyzeMarket when it matches.
Rules(data, st, now) ==
    LET currentData == data[Len(data)]
    IN  IF BreakoutCond(data, st)
        THEN Emit(MkAlert(now, BREAKOUT, "bull", st.keyLevels.resistance, 68), st, now)
        ELSE IF BreakdownCond(data, st)
        THEN Emit(MkAlert(now, BREAKDOWN, "bear", st.keyLevels.support, 65), st, now)
        ELSE IF VolatilityCond(data, st)
        THEN Emit(MkAlert(now, VOLATILITY, st.bias, currentData.price, 58), st, now)
        ELSE IF SweepCond(data, st)
        THEN Emit(MkAlert(now, SWEEP, "bull",
                          st.recentLows[Len(st.recentLows) - 1], 62), st, now)
        ELSE NoAlert(st)

\* Mutant of analyzeMarket: the cooldown gate is missing.
analyzeMarket_NoCooldown(data, st, now) ==
    IF Len(data) < ALERT_MIN_LEN THEN NoAlert(st)
    ELSE Rules(data, st, now)

\* Mutant of analyzeMarket: the length gate is that of the other two stages.
analyzeMarket_MinTwenty(data, st, now) ==
    IF Len(data) < STRUCTURE_LEN THEN NoAlert(st)
    ELSE IF now - st.lastAlertTime < COOLDOWN_MS THEN NoAlert(st)
    ELSE Rules(data, st, now)

analyzeMarket(data, st, now) ==
    IF Len(data) < ALERT_MIN_LEN THEN NoAlert(st)
    ELSE IF now - st.lastAlertTime < COOLDOWN_MS THEN NoAlert(st)
    ELSE Rules(data, st, now)

\* ----------------------------------------------------- the tick source

\* basePrice of the simulated feed.
BASE_PRICE == 43000

\* Epoch time, in ms, of the page load.
StartTime == 1000000

\* In-flight fetchMarketData calls the model follows at once.
MaxPending == 2

\* Timer periods a run may lose (a failed fetch, a stopped period) beyond
\* the ticks of its feed.
MaxSlack == 2

\* A tick script entry: price = origin + dp, high = price + up,
\* low = price - dn; origin is BASE_PRICE or the resistance level of the
\* moment ("resistance").
T(dp, vol, up, dn) ==
    [origin |-> "base", dp |-> dp, volume |-> vol, up |-> up, dn |-> dn]

Quiet(dp) == T(dp, 600, 5, 5)

Loud(dp) == T(dp, 2000, 5, 5)

Wave == <<0, 20, 40, 20, 0, -20, -40, -20>>

\* A rising zigzag: swing highs and lows every 8 ticks, each above the last.
Zig(i) == Wave[(i % 8) + 1] + 5 * i

ZigFeed(from, to) == [i \in 1..(to - from + 1) |-> Quiet(Zig(from + i - 2))]

\* Rising zigzag; a breakout at tick 25 (window still short), three in a
\* row at 30..32 and two in a row at 36..37.
FeedBreakout ==
    ZigFeed(1, 24) \o <<Loud(400)>> \o ZigFeed(26, 29)
    \o <<Loud(600), Loud(620), Loud(640)>> \o ZigFeed(33, 35)
    \o <<Loud(700), Loud(720)>>

\* A flat start, then a swing high at 5 and a later swing low at 18, so that
\* support lies above resistance: tick 30 (loud, at 12) is above resistance
\* and below support.  Tick 36 (loud, at -10) is below both.
FeedMixed ==
    [i \in 1..20 |-> Quiet(0)]
    \o <<Quiet(5), Quiet(3), Quiet(3), Quiet(10), Quiet(20), Quiet(21),
         Quiet(18), Quiet(30), Quiet(30), Loud(12)>>
    \o <<Quiet(30), Quiet(31), Quiet(25), Quiet(32), Quiet(33), Loud(-10)>>

\* Rising zigzag; tick 30 dips below the previous swing low and closes
\* above it.
FeedSweep == ZigFeed(1, 29) \o <<T(Zig(29), 600, 5, 100)>>

\* A zigzag in which tick 21 arrives with low > high.
FeedInvalid ==
    ZigFeed(1, 20) \o <<T(Zig(20), 600, 0, -500)>> \o ZigFeed(22, 34)

\* n ticks of strictly rising price at volume 600, bars of half-height w,
\* then one tick 10 above the resistance level at volume 2000.
FeedRamp(n, w) ==
    [i \in 1..n |-> T(10 * i, 600, w, w)]
    \o <<[origin |-> "resistance", dp |-> 10, volume |-> 2000,
          up |-> w, dn |-> w]>>

\* Rising zigzag for 29 ticks (resistance gets set), then 127 ticks far
\* above it, every sixth of them loud, the first being tick 30: with one
\* tick per period, a Breakout every 30 s, 22 in all.
FeedAlerts ==
    ZigFeed(1, 29)
    \o [i \in 1..127 |-> IF (i - 1) % 6 = 0 THEN Loud(1000) ELSE Quiet(1000)]

\* Ticks a scattered feed delivers.
ScatterLen == 60

\* Quiet ticks scattered over the levels 0, s, .., (m - 1) * s by a quadratic
\* residue sequence: swings of every kind, ties included.
Scatter(m, a, b, s) ==
    [i \in 1..ScatterLen |-> Quiet(((a * i * i + b * i) % m) * s)]

Feeds ==
    [breakout |-> FeedBreakout, mixed |-> FeedMixed, sweep |-> FeedSweep,
     invalid |-> FeedInvalid, ramp30 |-> FeedRamp(30, 5),
     ramp32 |-> FeedRamp(32, 2000), ramp101 |-> FeedRamp(101, 5),
     alerts |-> FeedAlerts,
     scatter1 |-> Scatter(23, 1, 0, 40), scatter2 |-> Scatter(23, 7, 5, 10),
     scatter3 |-> Scatter(23, 11, 5, 10), scatter4 |-> Scatter(23, 4, 1, 10),
     scatter5 |-> Scatter(17, 1, 7, 40), scatter6 |-> Scatter(23, 5, 5, 40)]

RampFeeds == {"ramp30", "ramp32", "ramp101"}

FeedNames == {"breakout", "mixed", "sweep", "invalid", "ramp30", "ramp32"}

LongFeedNames == {"ramp101"}

SteadyFeedNames ==
    {"alerts", "scatter1", "scatter2", "scatter3", "scatter4", "scatter5",
     "scatter6"}

MakeTick(shape, st) ==
    LET origin == IF shape.origin = "resistance" THEN st.keyLevels.resistance
                  ELSE BASE_PRICE
        price  == origin + shape.dp
    IN  [price |-> price, volume |-> shape.volume,
         high |-> price + shape.up, low |-> price - shape.dn]

\* ------------------------------------------------------------ the page

VARIABLES
    marketData,    \* useState<MarketData[]>: the window
    state,         \* stateRef.current: the AnalysisState
    alerts,        \* useState<Alert[]>: the alert history, newest first
    status,        \* useState<string>
    currentPrice,  \* useState<number>
    isActive,      \* useState<boolean>: the interval is armed
    now,           \* Date.now()
    pending,       \* fetchMarketData calls awaited by a timer callback
    feed,          \* the tick source: the script it plays
    served,        \* ticks the tick source has delivered
    appended,      \* history: every tick appended to the window, in order
    cycle          \* history: what the last step did

vars == <<marketData, state, alerts, status, currentPrice, isActive, now,
          pending, feed, served, appended, cycle>>

InitialState ==
    [bias |-> "neutral", regime |-> "range",
     keyLevels |-> [support |-> 0, resistance |-> 0],
     lastStructure |-> "none", recentHighs |-> <<>>, recentLows |-> <<>>,
     atr |-> 0, lastAlertTime |-> 0]

Upper(s) ==
    CASE s = "trend" -> "TREND"
      [] s = "range" -> "RANGE"
      [] s = "high-volatility" -> "HIGH-VOLATILITY"
      [] s = "bull" -> "BULL"
      [] s = "bear" -> "BEAR"
      [] s = "neutral" -> "NEUTRAL"

\* `Monitoring . ${REGIME} . ${BIAS} bias`, the bullet written as an asterisk.
StatusText(st) ==
    "Monitoring * " \o Upper(st.regime) \o " * " \o Upper(st.bias) \o " bias"

ERROR_STATUS == "Error fetching data"

\* The rules whose conditions hold on the window and the state analyzeMarket
\* is given, whatever its two gates say.
Held(data, st) ==
    {e \in {BREAKOUT, BREAKDOWN, VOLATILITY, SWEEP} :
        \/ e = BREAKOUT /\ BreakoutCond(data, st)
        \/ e = BREAKDOWN /\ BreakdownCond(data, st)
        \/ e = VOLATILITY /\ VolatilityCond(data, st)
        \/ e = SWEEP /\ SweepCond(data, st)}

\* cycle: the last pipeline run (the state it started from, the rules that
\* held, whether the cooldown had passed, what it emitted) and, in op, the
\* last of: a pipeline run ("resolve"), a click on the button ("start",
\* "stop").
Click(op) == [cycle EXCEPT !.op = op]

\* Mutant of Limited: when full, the window keeps its oldest ticks.
Limited_KeepOldest(prev, newData) == FirstN(Append(prev, newData), WINDOW_CAP)

\* const limited = [...prev, newData].slice(-100)
Limited(prev, newData) == LastN(Append(prev, newData), WINDOW_CAP)

EndTime == StartTime + (Len(Feeds[feed]) + MaxSlack) * INTERVAL_MS

Init ==
    /\ marketData = <<>>
    /\ state = InitialState
    /\ alerts = <<>>
    /\ status = "Initializing..."
    /\ currentPrice = 0
    /\ isActive = FALSE
    /\ now = StartTime
    /\ pending = 0
    /\ feed \in FeedNames
    /\ served = 0
    /\ appended = <<>>
    /\ cycle = [op |-> "init", emitted |-> <<>>, held |-> {}, cooled |-> TRUE,
                before |-> InitialState]

\* Mutant of Start: starting begins from a fresh AnalysisState.
Start_Resets ==
    /\ ~isActive
    /\ isActive' = TRUE
    /\ state' = InitialState
    /\ cycle' = Click("start")
    /\ UNCHANGED <<marketData, alerts, status, currentPrice, now,
                   pending, feed, served, appended>>

\* onClick of the button while stopped: the effect arms the interval.
Start ==
    /\ ~isActive
    /\ isActive' = TRUE
    /\ cycle' = Click("start")
    /\ UNCHANGED <<marketData, state, alerts, status, currentPrice, now,
                   pending, feed, served, appended>>

\* onClick of the button while running: the effect's cleanup clears the interval.
Stop ==
    /\ isActive
    /\ isActive' = FALSE
    /\ cycle' = Click("stop")
    /\ UNCHANGED <<marketData, state, alerts, status, currentPrice, now,
                   pending, feed, served, appended>>

\* A period passes with the interval cleared.
Idle ==
    /\ ~isActive
    /\ now + INTERVAL_MS <= EndTime
    /\ now' = now + INTERVAL_MS
    /\ UNCHANGED <<marketData, state, alerts, status, currentPrice, isActive,
                   pending, feed, served, appended, cycle>>

\* Mutant of TimerFire: the interval keeps firing after the stop.
TimerFire_WhileStopped ==
    /\ now + INTERVAL_MS <= EndTime
    /\ pending < MaxPending
    /\ served + pending < Len(Feeds[feed])
    /\ now' = now + INTERVAL_MS
    /\ pending' = pending + 1
    /\ UNCHANGED <<marketData, state, alerts, status, currentPrice, isActive,
                   feed, served, appended, cycle>>

\* The interval fires: the callback calls fetchMarketData and awaits it.
TimerFire ==
    /\ isActive
    /\ now + INTERVAL_MS <= EndTime
    /\ pending < MaxPending
    /\ served + pending < Len(Feeds[feed])
    /\ now' = now + INTERVAL_MS
    /\ pending' = pending + 1
    /\ UNCHANGED <<marketData, state, alerts, status, currentPrice, isActive,
                   feed, served, appended, cycle>>

\* The updater passed to setMarketData, with the setAlerts, setCurrentPrice
\* and setStatus calls it makes.
Pipeline(newData) ==
    LET limited == Limited(marketData, newData)
        s1 == detectStructure(limited, state)
        s2 == detectRegime(limited, s1)
        r  == analyzeMarket(limited, s2, now)
    IN  /\ marketData' = limited
        /\ state' = r.state
        /\ alerts' = IF r.alert # <<>>
                     THEN <<r.alert[1]>> \o FirstN(alerts, ALERTS_KEPT - 1)
                     ELSE alerts
        /\ currentPrice' = newData.price
        /\ status' = StatusText(r.state)
        /\ appended' = Append(appended, newData)
        /\ cycle' = [op |-> "resolve", emitted |-> r.alert,
                     held |-> Held(limited, s2),
                     cooled |-> now - s2.lastAlertTime >= COOLDOWN_MS,
                     before |-> state]

\* An awaited fetchMarketData resolves with a tick.
FetchResolve ==
    /\ pending > 0
    /\ pending' = pending - 1
    /\ served' = served + 1
    /\ Pipeline(MakeTick(Feeds[feed][served + 1], state))
    /\ UNCHANGED <<isActive, now, feed>>

\* Mutant of FetchReject: a failed fetch also drops the window.
FetchReject_DropsWindow ==
    /\ pending > 0
    /\ pending' = pending - 1
    /\ status' = ERROR_STATUS
    /\ marketData' = <<>>
    /\ UNCHANGED <<state, alerts, currentPrice, isActive, now,
                   feed, served, appended, cycle>>

\* An awaited fetchMarketData rejects: the catch block.
FetchReject ==
    /\ pending > 0
    /\ pending' = pending - 1
    /\ status' = ERROR_STATUS
    /\ UNCHANGED <<marketData, state, alerts, currentPrice, isActive, now,
                   feed, served, appended, cycle>>

Next ==
    \/ Start
    \/ Stop
    \/ Idle
    \/ TimerFire
    \/ FetchResolve
    \/ FetchReject

Spec == Init /\ [][Next]_vars

\* The same page fed a script longer than the window.
InitLong ==
    /\ marketData = <<>>
    /\ state = InitialState
    /\ alerts = <<>>
    /\ status = "Initializing..."
    /\ currentPrice = 0
    /\ isActive = FALSE
    /\ now = StartTime
    /\ pending = 0
    /\ feed \in LongFeedNames
    /\ served = 0
    /\ appended = <<>>
    /\ cycle = [op |-> "init", emitted |-> <<>>, held |-> {}, cooled |-> TRUE,
                before |-> InitialState]

SpecLong == InitLong /\ [][Next]_vars

\* The session as the tick source of the repository drives it: every fetch
\* settles before the next firing and none fails; the session is started
\* once and left running.
InitSteady ==
    /\ marketData = <<>>
    /\ state = InitialState
    /\ alerts = <<>>
    /\ status = "Initializing..."
    /\ currentPrice = 0
    /\ isActive = FALSE
    /\ now = StartTime
    /\ pending = 0
    /\ feed \in SteadyFeedNames
    /\ served = 0
    /\ appended = <<>>
    /\ cycle = [op |-> "init", emitted |-> <<>>, held |-> {}, cooled |-> TRUE,
                before |-> InitialState]

TimerFireSettled == pending = 0 /\ TimerFire

NextSteady ==
    \/ Start
    \/ TimerFireSettled
    \/ FetchResolve

SpecSteady == InitSteady /\ [][NextSteady]_vars

\* ============================================================== claims

Probability(event) ==
    CASE event = BREAKOUT -> 68
      [] event = BREAKDOWN -> 65
      [] event = VOLATILITY -> 58
      [] event = SWEEP -> 62

\* The first rule of RuleOrder in the set held, "none" for the empty set.
FirstHeld(held) ==
    IF held = {} THEN "none"
    ELSE RuleOrder[CHOOSE i \in 1..Len(RuleOrder) :
                       /\ RuleOrder[i] \in held
                       /\ \A j \in 1..(i - 1) : RuleOrder[j] \notin held]

\* C1: any two alerts of the history are at least 30 s apart, and a cycle
\* run less than 30 s after lastAlertTime emits nothing and leaves
\* lastAlertTime alone, whatever rules hold.
C1_AlertsCooldownApart ==
    /\ \A i \in 1..(Len(alerts) - 1) :
           alerts[i].timestamp - alerts[i + 1].timestamp >= COOLDOWN_MS
    /\ ~cycle.cooled =>
           /\ cycle.emitted = <<>>
           /\ state.lastAlertTime = cycle.before.lastAlertTime

\* A second qualifying breakout cycle 10 s after the first alert: one alert.
C1_Witness ==
    /\ cycle.op = "resolve"
    /\ BREAKOUT \in cycle.held
    /\ ~cycle.cooled
    /\ Len(alerts) = 1
    /\ alerts[1].event = BREAKOUT
    /\ now - state.lastAlertTime = 10000

\* C2: a cycle emits at most one alert; it emits one exactly when the window
\* has 30 ticks, the cooldown has passed and some rule holds, and the alert
\* is then that of the first rule that holds in the order Breakout,
\* Breakdown, Volatility expansion, Liquidity sweep.
C2_FirstRuleWins ==
    /\ Len(cycle.emitted) <= 1
    /\ cycle.emitted # <<>> <=>
           /\ Len(marketData) >= ALERT_MIN_LEN
           /\ cycle.cooled
           /\ cycle.held # {}
    /\ cycle.emitted # <<>> =>
           /\ cycle.emitted[1].event = FirstHeld(cycle.held)
           /\ cycle.emitted[1].probability = Probability(FirstHeld(cycle.held))
           /\ alerts # <<>> /\ alerts[1] = cycle.emitted[1]

\* Breakout and Breakdown hold in the same cycle; the Breakout alert is emitted.
C2_Witness ==
    /\ cycle.op = "resolve"
    /\ {BREAKOUT, BREAKDOWN} \subseteq cycle.held
    /\ cycle.emitted # <<>>
    /\ cycle.emitted[1].event = BREAKOUT
    /\ cycle.emitted[1].bias = "bull"

\* C3: the window never holds more than 100 ticks and is the last (up to)
\* 100 appended ticks in the order they were appended.
C3_WindowLastCap ==
    /\ Len(marketData) <= WINDOW_CAP
    /\ marketData = LastN(appended, WINDOW_CAP)

\* More than 100 ticks were appended: the two oldest are gone.
C3_Witness ==
    /\ Len(appended) = WINDOW_CAP + 2
    /\ Len(marketData) = WINDOW_CAP
    /\ marketData[1] = appended[3]
    /\ marketData[1] # appended[1]

\* C4 (as claimed): when both key levels are set, and set from the swing
\* sets of the current slice, support <= resistance.
C4_SupportBelowResistance ==
    (/\ Len(state.recentLows) > 0
     /\ Len(state.recentHighs) > 0
     /\ state.keyLevels.support > 0
     /\ state.keyLevels.resistance > 0)
    => state.keyLevels.support <= state.keyLevels.resistance

C6_ShortWindowNoOp ==
    Len(marketData) < STRUCTURE_LEN =>
        /\ state = cycle.before
        /\ state = InitialState
        /\ state.bias = "neutral" /\ state.regime = "range"

\* The 19th tick of a zigzag (swings in it) has been through the pipeline.
C6_Witness ==
    /\ cycle.op = "resolve"
    /\ Len(marketData) = STRUCTURE_LEN - 1
    /\ SwingHighs(Prices(marketData)) # <<>>
    /\ state = InitialState

\* C7: while the window holds fewer than 30 ticks a cycle emits no alert and
\* leaves lastAlertTime unchanged.
C7_NoAlertBelowThirty ==
    Len(marketData) < ALERT_MIN_LEN =>
        /\ cycle.emitted = <<>>
        /\ alerts = <<>>
        /\ state.lastAlertTime = cycle.before.lastAlertTime

\* Key levels are set (20..29 ticks) and the Breakout rule holds after the
\* cooldown, yet nothing is emitted.
C7_Witness ==
    /\ cycle.op = "resolve"
    /\ Len(marketData) >= STRUCTURE_LEN
    /\ Len(marketData) < ALERT_MIN_LEN
    /\ state.keyLevels.resistance > 0
    /\ BREAKOUT \in cycle.held
    /\ cycle.cooled
    /\ cycle.emitted = <<>>

\* C8: a step in which an awaited fetch ends without delivering a tick
\* leaves the window, the AnalysisState and the alert history unchanged,
\* sets the status to the error text and leaves the interval armed as it was.
C8_FetchFailureSkipsCycle ==
    [][(pending' < pending /\ served' = served) =>
          /\ UNCHANGED <<marketData, state, alerts, currentPrice, isActive>>
          /\ status' = ERROR_STATUS]_vars

\* A fetch failed after 30 good cycles and an alert; the timer is still armed.
C8_Witness ==
    /\ status = ERROR_STATUS
    /\ isActive
    /\ Len(marketData) >= ALERT_MIN_LEN
    /\ alerts # <<>>
    /\ state # InitialState

\* C9 (as claimed): no tick with low > high is ever in the window.
C9_InvalidTickRejected ==
    \A i \in 1..Len(marketData) : marketData[i].low <= marketData[i].high

\* C10: a click on the start/stop button changes neither the AnalysisState
\* nor the window nor the alert history (nor status and current price).
C10_ToggleKeepsState ==
    [][(isActive' # isActive) =>
          UNCHANGED <<marketData, state, alerts, status, currentPrice>>]_vars

\* The session was stopped and started again with 30 ticks and an alert in hand.
C10_Witness ==
    /\ cycle.op = "start"
    /\ isActive
    /\ Len(marketData) >= ALERT_MIN_LEN
    /\ alerts # <<>>
    /\ state # InitialState

\* C11 (as claimed): at most one cycle is in progress: a timer firing never
\* starts a cycle while the fetch of an earlier cycle is still awaited.
C11_OneCycleInProgress == pending <= 1

\* C12: a timer firing starts a cycle only while the session is started (a
\* stop is in force from the click on), and the AnalysisState changes only
\* in the step that ends a cycle, which applies detectStructure,
\* detectRegime and analyzeMarket together: no step leaves the state with
\* only some of the stages applied.
C12_StopEffectiveStagesTogether ==
    [][/\ (pending' > pending) => (isActive /\ isActive')
       /\ (state' # state) =>
              /\ pending' < pending /\ served' = served + 1
              /\ LET s1 == detectStructure(marketData', state)
                     s2 == detectRegime(marketData', s1)
                 IN  state' = analyzeMarket(marketData', s2, now).state]_vars

\* The session is stopped; the cycle whose fetch was in flight at the stop
\* has run all its stages, and no other cycle has been started.
C12_Witness ==
    /\ ~isActive
    /\ cycle.op = "resolve"
    /\ pending = 0
    /\ Len(marketData) >= ALERT_MIN_LEN
    /\ state # cycle.before
    /\ state.recentHighs # cycle.before.recentHighs
    /\ cycle.emitted # <<>>
    /\ state.lastAlertTime = now

\* C13: the alert history never holds more than 20 alerts and is ordered
\* most recent first; a step that emits an alert puts it at the head, in
\* front of the alerts held before, of which the oldest is dropped when 20
\* were held.
C13_HistoryNewestFirstCapped ==
    [][/\ Len(alerts) <= ALERTS_KEPT /\ Len(alerts') <= ALERTS_KEPT
       /\ \A i \in 1..(Len(alerts') - 1) :
              alerts'[i].timestamp > alerts'[i + 1].timestamp
       /\ (alerts' # alerts) =>
              /\ cycle'.emitted # <<>>
              /\ alerts'[1] = cycle'.emitted[1]
              /\ Tail(alerts') = IF Len(alerts) = ALERTS_KEPT
                                 THEN SubSeq(alerts, 1, ALERTS_KEPT - 1)
                                 ELSE alerts]_vars

\* The 22nd alert has been emitted: 20 are held, 30 s apart, the newest at
\* the head and the first two gone.
C13_Witness ==
    /\ Len(alerts) = ALERTS_KEPT
    /\ cycle.emitted # <<>>
    /\ alerts[1] = cycle.emitted[1]
    /\ alerts[1].timestamp = now
    /\ now = StartTime + (ALERT_MIN_LEN + 21 * 6) * INTERVAL_MS
    /\ alerts[ALERTS_KEPT].timestamp =
           StartTime + (ALERT_MIN_LEN + 2 * 6) * INTERVAL_MS

\* C14: no two alerts carry the same id: the ids held in the history are
\* pairwise different, and the id of a newly emitted alert is later than
\* every id held before it (so it differs from the discarded ones too).
C14_AlertIdsUnique ==
    [][/\ \A i, j \in 1..Len(alerts') :
              i # j => alerts'[i].id # alerts'[j].id
       /\ (alerts' # alerts) =>
              \A i \in 1..Len(alerts) : alerts'[1].id > alerts[i].id]_vars

\* Two cycles ran at the same instant, each with a rule that held: the
\* first emitted the second alert of the session, the other emitted nothing.
C14_Witness ==
    /\ cycle.op = "resolve"
    /\ cycle.held # {}
    /\ cycle.emitted = <<>>
    /\ Len(alerts) = 2
    /\ alerts[1].id = now
    /\ alerts[1].timestamp = now
    /\ alerts[2].id < now

\* C15: with 20 or more ticks in the window, lastStructure and bias are
\* those of the first case that matches on the swing highs H and swing lows
\* L of the last 20 prices: (1) the latest of >= 2 highs above the one
\* before: HH, bull; (2) the latest of >= 2 lows below the one before: LL,
\* bear; (3) the latest high below: LH, bear; (4) the latest low above: HL,
\* bull; with no match both keep the values the cycle started from.
C15_StructureFirstMatch ==
    Len(marketData) >= STRUCTURE_LEN =>
        LET p   == Prices(LastN(marketData, STRUCTURE_LEN))
            H   == SwingHighs(p)
            L   == SwingLows(p)
            hUp == Len(H) >= 2 /\ H[Len(H)] > H[Len(H) - 1]
            hDn == Len(H) >= 2 /\ H[Len(H)] < H[Len(H) - 1]
            lUp == Len(L) >= 2 /\ L[Len(L)] > L[Len(L) - 1]
            lDn == Len(L) >= 2 /\ L[Len(L)] < L[Len(L) - 1]
            is(s, b) == state.lastStructure = s /\ state.bias = b
        IN  /\ hUp => is("HH", "bull")
            /\ (~hUp /\ lDn) => is("LL", "bear")
            /\ (~hUp /\ ~lDn /\ hDn) => is("LH", "bear")
            /\ (~hUp /\ ~lDn /\ ~hDn /\ lUp) => is("HL", "bull")
            /\ (~hUp /\ ~lDn /\ ~hDn /\ ~lUp) =>
                   is(cycle.before.lastStructure, cycle.before.bias)

\* The slice has a higher high and a lower low at once, after a bearish
\* cycle: case (1) wins, the structure is HH and the bias bull.
C15_Witness ==
    /\ cycle.op = "resolve"
    /\ Len(marketData) >= STRUCTURE_LEN
    /\ LET p == Prices(LastN(marketData, STRUCTURE_LEN))
           H == SwingHighs(p)
           L == SwingLows(p)
       IN  /\ Len(H) >= 2 /\ H[Len(H)] > H[Len(H) - 1]
           /\ Len(L) >= 2 /\ L[Len(L)] < L[Len(L) - 1]
    /\ cycle.before.bias = "bear"
    /\ state.lastStructure = "HH"
    /\ state.bias = "bull"

\* C16: with 20 or more ticks in the window: if (max - min) / mean of the
\* last 20 prices exceeds 0.015 the regime is high-volatility, whatever the
\* swings; otherwise, with 2 or more entries in both recentHighs and
\* recentLows, it is trend when |(last high - first high) + (last low -
\* first low)| exceeds 0.01 * mean and range when not; otherwise it is the
\* regime the cycle started from.
C16_RegimeCases ==
    Len(marketData) >= STRUCTURE_LEN =>
        LET p    == Prices(LastN(marketData, STRUCTURE_LEN))
            rh   == state.recentHighs
            rl   == state.recentLows
            hv   == (SeqMax(p) - SeqMin(p)) * 1000 * Len(p) > 15 * SumSeq(p)
            both == Len(rh) >= 2 /\ Len(rl) >= 2
            ts   == Abs((rh[Len(rh)] - rh[1]) + (rl[Len(rl)] - rl[1]))
        IN  /\ hv => state.regime = "high-volatility"
            /\ (~hv /\ both /\ ts * 100 * Len(p) > SumSeq(p)) =>
                   state.regime = "trend"
            /\ (~hv /\ both /\ ts * 100 * Len(p) <= SumSeq(p)) =>
                   state.regime = "range"
            /\ (~hv /\ ~both) => state.regime = cycle.before.regime

\* The price range of the slice exceeds 1.5 % of the mean while both swing
\* sets have two entries that differ by less than 1 % of it: the regime,
\* range before, is high-volatility.
C16_Witness ==
    /\ cycle.op = "resolve"
    /\ Len(marketData) >= STRUCTURE_LEN
    /\ LET p  == Prices(LastN(marketData, STRUCTURE_LEN))
           rh == state.recentHighs
           rl == state.recentLows
       IN  /\ (SeqMax(p) - SeqMin(p)) * 1000 * Len(p) > 15 * SumSeq(p)
           /\ Len(rh) >= 2 /\ Len(rl) >= 2
           /\ Abs((rh[Len(rh)] - rh[1]) + (rl[Len(rl)] - rl[1])) * 100 * Len(p)
                  <= SumSeq(p)
    /\ cycle.before.regime = "range"
    /\ state.regime = "high-volatility"

\* C17: recentHighs and recentLows never hold more than 3 entries, and with
\* 20 or more ticks in the window they are the prices at the last (up to) 3
\* positions of the last 20 prices that are strictly above, respectively
\* below, their two neighbours on either side, in the order of the
\* positions; nothing else, so they are empty when there is no such position.
C17_SwingsOfCurrentSlice ==
    /\ Len(state.recentHighs) <= SWINGS_KEPT
    /\ Len(state.recentLows) <= SWINGS_KEPT
    /\ Len(marketData) >= STRUCTURE_LEN =>
           LET p  == Prices(LastN(marketData, STRUCTURE_LEN))
               HP == {i \in 3..(Len(p) - 2) :
                         /\ p[i] > p[i - 1] /\ p[i] > p[i - 2]
                         /\ p[i] > p[i + 1] /\ p[i] > p[i + 2]}
               LP == {i \in 3..(Len(p) - 2) :
                         /\ p[i] < p[i - 1] /\ p[i] < p[i - 2]
                         /\ p[i] < p[i + 1] /\ p[i] < p[i + 2]}
               Kept(P) == {i \in P :
                              Cardinality({j \in P : j > i}) < SWINGS_KEPT}
               Matches(r, P) ==
                   /\ Len(r) = Cardinality(Kept(P))
                   /\ \A i \in Kept(P) :
                          r[Cardinality({j \in Kept(P) : j <= i})] = p[i]
           IN  /\ Matches(state.recentHighs, HP)
               /\ Matches(state.recentLows, LP)

\* The slice has four swing highs or more: recentHighs holds the last
\* three, which are neither the first three nor those of the cycle before.
C17_Witness ==
    /\ cycle.op = "resolve"
    /\ Len(marketData) >= STRUCTURE_LEN
    /\ LET p == Prices(LastN(marketData, STRUCTURE_LEN))
       IN  /\ Len(SwingHighs(p)) > SWINGS_KEPT
           /\ state.recentHighs # FirstN(SwingHighs(p), SWINGS_KEPT)
    /\ Len(state.recentHighs) = SWINGS_KEPT
    /\ state.recentHighs # cycle.before.recentHighs

\* C18 (as claimed): calculateATR gives 0 on a window shorter than the
\* period and never a negative value on a window that is not empty, and
\* state.atr is never negative.
C18_AtrNonNegative ==
    /\ \A period \in {RECENT_ATR_PERIOD, ATR_PERIOD} :
           /\ Len(marketData) < period => calculateATR(marketData, period) = 0
           /\ marketData # <<>> => calculateATR(marketData, period) >= 0
    /\ state.atr >= 0

\* C19: bias and lastStructure agree: lastStructure is none exactly when
\* bias is neutral, HH or HL exactly when bias is bull, LH or LL exactly
\* when bias is bear.
C19_BiasMatchesStructure ==
    /\ state.lastStructure \in {"none", "HH", "HL", "LH", "LL"}
    /\ state.bias \in {"neutral", "bull", "bear"}
    /\ state.lastStructure = "none" <=> state.bias = "neutral"
    /\ state.lastStructure \in {"HH", "HL"} <=> state.bias = "bull"
    /\ state.lastStructure \in {"LH", "LL"} <=> state.bias = "bear"

\* A lower high after a bullish cycle: the structure is LH and the bias,
\* bull before, is bear.
C19_Witness ==
    /\ cycle.op = "resolve"
    /\ cycle.before.lastStructure \in {"HH", "HL"}
    /\ cycle.before.bias = "bull"
    /\ state.lastStructure = "LH"
    /\ state.bias = "bear"

\* C20: the step that ends a cycle leaves bias, regime, keyLevels,
\* lastStructure, recentHighs, recentLows and atr as detectStructure and
\* detectRegime set them; it changes lastAlertTime exactly when it emits an
\* alert, and then to the alert's timestamp.  lastAlertTime never
\* decreases and is the timestamp of the newest alert, 0 when there is none.
C20_AnalyzeMarketFrame ==
    [][/\ (served' = served + 1) =>
              LET s1 == detectStructure(marketData', state)
                  s2 == detectRegime(marketData', s1)
              IN  /\ [state' EXCEPT !.lastAlertTime = state.lastAlertTime] = s2
                  /\ (state'.lastAlertTime # state.lastAlertTime)
                         <=> (cycle'.emitted # <<>>)
                  /\ (cycle'.emitted # <<>>) =>
                         state'.lastAlertTime = cycle'.emitted[1].timestamp
       /\ state'.lastAlertTime >= state.lastAlertTime
       /\ state'.lastAlertTime =
              IF alerts' = <<>> THEN 0 ELSE alerts'[1].timestamp]_vars

\* A cycle emitted the second alert of the session, with a bias other than
\* that of the state, which is left as it is: lastAlertTime moved from the
\* first alert's time to now.
C20_Witness ==
    /\ cycle.op = "resolve"
    /\ cycle.emitted # <<>>
    /\ Len(alerts) = 2
    /\ cycle.before.lastAlertTime = alerts[2].timestamp
    /\ state.lastAlertTime = now
    /\ alerts[1].timestamp = now
    /\ state.bias # alerts[1].bias

====
